---- MODULE Spec2Model ----
(***************************************************************************)
(* Model of package httpretrier: the retry transport (retryTransport and   *)
(* its RoundTrip loop) and the backoff strategies it consults.             *)
(*                                                                         *)
(* Every logical request r is one call of retryTransport.RoundTrip.  Its   *)
(* local variables keep the names of the source (attempt, resp, err,       *)
(* transport, retryStrategy, copyErr, closeErr, delay); pc[r] is the       *)
(* position of the call.  The variables log, waits, rewinds and result     *)
(* observe what the call did: the physical sends with the state of each    *)
(* response body, the delay waits, the GetBody calls and the values the    *)
(* call returned.                                                          *)
(*                                                                         *)
(* The strategies are also called on their own, and the ClientBuilder      *)
(* (b, client) is modelled with its With* setters and Build.               *)
(*                                                                         *)
(* time.Duration is a 64-bit signed integer counting ticks of 1ns; the     *)
(* model keeps a signed two's-complement width of DurationBits bits,       *)
(* which TLC's integers can hold, and a tick of the model is 1ms so that   *)
(* the durations of the package fit the width.                             *)
(***************************************************************************)
EXTENDS Integers, Sequences, FiniteSets, TLC

\* ------------------------------------------------------------------ bounds

\* Largest MaxRetries a retry transport is constructed with.
MaxN == 2

\* Number of logical request slots (calls of RoundTrip that may be in flight).
NumReqs == 2

\* Largest MaxRetries of a retry transport that two calls share.
ConcN == 1

\* Width in bits of the model's time.Duration.
DurationBits == 20

\* How many With* calls are made on a ClientBuilder.
MaxWith == 2

\* How many of the lowest and of the highest values rand.Int63n(n) can
\* return are drawn.
DrawSpan == 2

\* --------------------------------------------------------------- constants

\* time.Millisecond and time.Second, in ticks of the model.
Millisecond == 1
Second == 1000

\* http.StatusInternalServerError
StatusInternalServerError == 500

Reqs == 1..NumReqs

\* The value of a nil error, a nil function and a nil transport.
Nil == "nil"

\* ---------------------------------------------------------------- strategies

Pow2(k) == 2 ^ k

\* A value reduced to the signed two's-complement range of a Duration.
Wrap(x) ==
    LET m == x % Pow2(DurationBits)
    IN  IF m >= Pow2(DurationBits - 1) THEN m - Pow2(DurationBits) ELSE m

\* base * (1 << uint(attempt)) in Duration arithmetic.  A shift by the width
\* or more (uint of a negative attempt included) gives 0; otherwise the
\* product modulo 2^DurationBits, computed by doubling so that no
\* intermediate value leaves the width.
RECURSIVE Doubled(_, _)
Doubled(x, k) == IF k = 0 THEN Wrap(x) ELSE Wrap(2 * Doubled(x, k - 1))

ShiftMul(base, attempt) ==
    IF attempt < 0 \/ attempt >= DurationBits THEN 0 ELSE Doubled(base, attempt)

\* math.MaxInt64 of the model's width, the largest Duration.
MaxDuration == Pow2(DurationBits - 1) - 1

\* Mutant of ExponentialBackoff: without the special case of attempt 0.
ExponentialBackoff_NoSpecialCase(base, maxDelay, attempt) ==
    LET d == ShiftMul(base, attempt)
    IN  IF d > maxDelay \/ d <= 0 THEN maxDelay ELSE d

\* The closure ExponentialBackoff(base, maxDelay) applied to attempt.
ExponentialBackoff(base, maxDelay, attempt) ==
    IF attempt = 0 /\ base > maxDelay
    THEN base
    ELSE LET d == ShiftMul(base, attempt)
         IN  IF d > maxDelay \/ d <= 0 THEN maxDelay ELSE d

\* The closure FixedDelay(d) applied to attempt.
FixedDelay(d, attempt) == d

\* baseDelay / 2: Go's division truncates towards zero.
Half(d) == IF d >= 0 THEN d \div 2 ELSE 0 - ((0 - d) \div 2)

\* rand.Int63n(n) panics if n <= 0.
Int63nPanics(n) == n <= 0

\* The values rand.Int63n(n) returns, of 0..n-1 the DrawSpan lowest and
\* the DrawSpan highest.
Int63n(n) ==
    {j \in 0..(DrawSpan - 1) : j < n} \cup {n - k : k \in {i \in 1..DrawSpan : i <= n}}

\* The closure JitterBackoff(base, maxDelay) applied to attempt, with the
\* value jitter drawn: baseDelay + jitter in Duration arithmetic.
JitterBackoff(base, maxDelay, attempt, jitter) ==
    Wrap(ExponentialBackoff(base, maxDelay, attempt) + jitter)

\* A RetryStrategy value: nil, or the closure a constructor returned, named
\* by the constructor and the arguments it captured.
NilStrategy == [kind |-> Nil, base |-> 0, max |-> 0]

FixedStrategy(d) == [kind |-> "fixed", base |-> d, max |-> 0]

ExponentialStrategy(b, m) == [kind |-> "exponential", base |-> b, max |-> m]

JitterStrategy(b, m) == [kind |-> "jitter", base |-> b, max |-> m]

\* ExponentialBackoff(500*time.Millisecond, 10*time.Second), the default.
DefaultStrategy == ExponentialStrategy(500 * Millisecond, 10 * Second)

\* Whether a call s(attempt) of strategy s panics.
StrategyPanics(s, a) ==
    s.kind = "jitter" /\ Int63nPanics(Half(ExponentialBackoff(s.base, s.max, a)))

\* The delays a call s(attempt) of strategy s can return.
StrategyDelays(s, a) ==
    CASE s.kind = "fixed" -> {FixedDelay(s.base, a)}
      [] s.kind = "exponential" -> {ExponentialBackoff(s.base, s.max, a)}
      [] s.kind = "jitter" ->
            {JitterBackoff(s.base, s.max, a, j) :
                j \in Int63n(Half(ExponentialBackoff(s.base, s.max, a)))}
      [] OTHER -> {}

\* ------------------------------------------------------------------- errors

\* The error values RoundTrip returns: kind names the return statement,
\* wraps the error wrapped with %w, status the status code in the message.
NoError == [kind |-> Nil, wraps |-> Nil, status |-> 0]

ErrAllRetriesFailed == [kind |-> "ErrAllRetriesFailed", wraps |-> Nil, status |-> 0]

GetBodyError(e) == [kind |-> "failed to get request body for retry", wraps |-> e, status |-> 0]

DiscardError(e) == [kind |-> "failed to discard response body", wraps |-> e, status |-> 0]

CloseError(e) == [kind |-> "failed to close response body", wraps |-> e, status |-> 0]

LastError(e) == [kind |-> "all retries failed; last error", wraps |-> e, status |-> 0]

StatusError(s) == [kind |-> "last attempt failed with status", wraps |-> "ErrAllRetriesFailed", status |-> s]

\* ------------------------------------------------------------- environment

\* Status codes the wrapped transport answers with.
Statuses == {200, 499, 500, 503}

\* Errors the wrapped transport fails with.
TransportErrs == {"errA", "errB"}

\* The error of a send whose request context is past its deadline.
DeadlineExceeded == "context deadline exceeded"

\* What one transport.RoundTrip(req) call returns: a response (resp, with
\* its status) and an error (err, Nil for none).  The code reads all four
\* combinations of the two being nil or not.
Outcome(hasResp, status, e) == [resp |-> hasResp, status |-> status, err |-> e]

SendOutcomes ==
    {Outcome(TRUE, s, Nil) : s \in Statuses}
    \cup {Outcome(FALSE, 0, e) : e \in TransportErrs}
    \cup {Outcome(TRUE, s, "errA") : s \in {200, 500}}
    \cup {Outcome(FALSE, 0, Nil)}

\* What the wrapped transport "testServer" answers with: a success, a
\* server error and a transport error.
TestServerOutcomes ==
    {Outcome(TRUE, 200, Nil), Outcome(TRUE, 503, Nil), Outcome(FALSE, 0, "errA")}

\* The strategies a retry transport is constructed with.
Strategies ==
    {NilStrategy, FixedStrategy(100 * Millisecond),
     ExponentialStrategy(200 * Millisecond, 500 * Millisecond),
     ExponentialStrategy(300 * Millisecond, 200 * Millisecond)}

\* The requests a caller passes: Body is 0 for a nil body, otherwise the
\* number of the body reader (1 for the caller's own); GetBody tells
\* whether the rewind function is set.
Requests == [Body : {0, 1}, GetBody : BOOLEAN]

\* -------------------------------------------------------------------- state

VARIABLES
    rt,             \* the retryTransport: Transport, MaxRetries, RetryStrategy
    pc,             \* pc[r]: position of call r in RoundTrip
    req,            \* req[r]: the request of call r (Body, GetBody)
    expired,        \* expired[r]: the deadline of req[r]'s context has passed
    transport,      \* local transport
    retryStrategy,  \* local retryStrategy
    attempt,        \* loop variable attempt
    resp,           \* local resp: 0 for nil, else the number of the send that produced it
    err,            \* local err
    copyErr,        \* local copyErr
    closeErr,       \* local closeErr
    delay,          \* local delay
    log,            \* log[r]: the physical sends of call r, in order
    waits,          \* waits[r]: the delay waits of call r, in order
    rewinds,        \* rewinds[r]: GetBody calls of call r, succeeded and failed
    result,         \* result[r]: what the call returned (resp, err)
    closure,        \* a RetryStrategy closure that is called on its own
    called,         \* the last call of closure: attempt, delay, before, panicked
    b,              \* b.client, the settings of the ClientBuilder
    withs,          \* the number of With* calls made on the builder
    given,          \* b.client as it was when Build was last called
    client,         \* the http.Client of the last Build: Timeout and its http.Transport
    lastWith,       \* the last With* call on the builder: its name and argument
    builds          \* the Build calls since the last With* call, counted up to 2

vars == <<rt, pc, req, expired, transport, retryStrategy, attempt, resp, err,
          copyErr, closeErr, delay, log, waits, rewinds, result,
          closure, called, b, withs, given, client, lastWith, builds>>

\* The ClientBuilder and what it built.
builder == <<b, withs, given, client, lastWith, builds>>

\* What RoundTrip does not touch.
outside == <<closure, called, builder>>

\* No call of the strategy yet.
NotCalled == [attempt |-> 0 - 1, delay |-> 0, before |-> 0, panicked |-> FALSE]

locals == <<transport, retryStrategy, attempt, resp, err, copyErr, closeErr, delay>>

NoResult == [resp |-> 0, err |-> NoError]

\* ------------------------------------------------------------ ClientBuilder

ValidMaxIdleConns == 200
ValidMinIdleConns == 1
ValidMaxIdleConnsPerHost == 200
ValidMinIdleConnsPerHost == 1
ValidMaxIdleConnTimeout == 120 * Second
ValidMinIdleConnTimeout == 1 * Second
ValidMaxTLSHandshakeTimeout == 15 * Second
ValidMinTLSHandshakeTimeout == 1 * Second
ValidMaxExpectContinueTimeout == 5 * Second
ValidMinExpectContinueTimeout == 1 * Second
ValidMaxTimeout == 30 * Second
ValidMinTimeout == 1 * Second
ValidMaxRetries == 10
ValidMinRetries == 1
ValidMaxBaseDelay == 5 * Second
ValidMinBaseDelay == 300 * Millisecond
ValidMaxMaxDelay == 120 * Second
ValidMinMaxDelay == 300 * Millisecond

DefaultMaxRetries == 3
DefaultBaseDelay == 500 * Millisecond
DefaultMaxDelay == 10 * Second
DefaultMaxIdleConns == 100
DefaultIdleConnTimeout == 90 * Second
DefaultTLSHandshakeTimeout == 10 * Second
DefaultExpectContinueTimeout == 1 * Second
DefaultDisableKeepAlives == FALSE
DefaultMaxIdleConnsPerHost == 100
DefaultTimeout == 5 * Second

\* The Strategy types.
FixedDelayStrategy == "fixed"
JitterBackoffStrategy == "jitter"
ExponentialBackoffStrategy == "exponential"

\* Strategy.IsValid
IsValid(s) == s \in {FixedDelayStrategy, JitterBackoffStrategy, ExponentialBackoffStrategy}

\* NewClientBuilder(): b.client with the defaults.
NewClientBuilder ==
    [maxIdleConns |-> DefaultMaxIdleConns,
     idleConnTimeout |-> DefaultIdleConnTimeout,
     tlsHandshakeTimeout |-> DefaultTLSHandshakeTimeout,
     expectContinueTimeout |-> DefaultExpectContinueTimeout,
     disableKeepAlives |-> DefaultDisableKeepAlives,
     maxIdleConnsPerHost |-> DefaultMaxIdleConnsPerHost,
     timeout |-> DefaultTimeout,
     maxRetries |-> DefaultMaxRetries,
     retryStrategyType |-> ExponentialBackoffStrategy,
     retryBaseDelay |-> DefaultBaseDelay,
     retryMaxDelay |-> DefaultMaxDelay]

\* The zero http.Client, before any Build.
NoClient ==
    [Timeout |-> 0,
     Transport |-> [MaxIdleConns |-> 0, IdleConnTimeout |-> 0, TLSHandshakeTimeout |-> 0,
                    ExpectContinueTimeout |-> 0, DisableKeepAlives |-> FALSE,
                    MaxIdleConnsPerHost |-> 0]]

\* No With* call yet.
NoWith == [op |-> "", arg |-> 0]

\* No ClientBuilder is in use.
NoBuilder ==
    /\ b = NewClientBuilder
    /\ withs = 0
    /\ given = NewClientBuilder
    /\ client = NoClient
    /\ lastWith = NoWith
    /\ builds = 0

\* NewClient(maxRetries, strategy, baseTransport): the retryTransport of the
\* client it returns.  maxRetries is passed through as given.
NewClient(maxRetries, strategy, baseTransport) ==
    [Transport |-> IF baseTransport = Nil THEN "http.DefaultTransport" ELSE baseTransport,
     MaxRetries |-> maxRetries,
     RetryStrategy |-> IF strategy = NilStrategy THEN DefaultStrategy ELSE strategy]

\* The retry transports a call can run on: those of NewClient, for every
\* maxRetries from -1 on, and the struct with only MaxRetries set, whose nil
\* Transport and RetryStrategy RoundTrip replaces by the defaults.
RetryTransports ==
    {NewClient(m, s, t) : m \in (0 - 1)..MaxN, s \in Strategies, t \in {Nil, "base"}}
    \cup {[Transport |-> Nil, MaxRetries |-> m, RetryStrategy |-> NilStrategy] : m \in (0 - 1)..MaxN}

\* The state of every call before it starts, position aside.
InitCalls ==
    /\ expired = [r \in Reqs |-> FALSE]
    /\ transport = [r \in Reqs |-> Nil]
    /\ retryStrategy = [r \in Reqs |-> NilStrategy]
    /\ attempt = [r \in Reqs |-> 0]
    /\ resp = [r \in Reqs |-> 0]
    /\ err = [r \in Reqs |-> Nil]
    /\ copyErr = [r \in Reqs |-> Nil]
    /\ closeErr = [r \in Reqs |-> Nil]
    /\ delay = [r \in Reqs |-> 0]
    /\ log = [r \in Reqs |-> <<>>]
    /\ waits = [r \in Reqs |-> <<>>]
    /\ rewinds = [r \in Reqs |-> [ok |-> 0, failed |-> 0]]
    /\ result = [r \in Reqs |-> NoResult]

\* One logical request: call 1 enters RoundTrip, the other slots stay idle.
Init ==
    /\ rt \in RetryTransports
    /\ pc = [r \in Reqs |-> IF r = 1 THEN "start" ELSE "idle"]
    /\ \E q \in Requests : req = [r \in Reqs |-> IF r = 1 THEN q ELSE [Body |-> 0, GetBody |-> FALSE]]
    /\ InitCalls
    /\ closure = rt.RetryStrategy
    /\ called = NotCalled
    /\ NoBuilder

\* ------------------------------------------------------------------ RoundTrip

\* return x, y
Return(r, rsp, e) ==
    /\ result' = [result EXCEPT ![r] = [resp |-> rsp, err |-> e]]
    /\ pc' = [pc EXCEPT ![r] = "done"]

\* Mutant of Begin: the defaults resolved for the call are stored in the
\* retry transport.
Begin_StoresDefaults(r) ==
    /\ pc[r] = "start"
    /\ transport' = [transport EXCEPT ![r] =
            IF rt.Transport = Nil THEN "http.DefaultTransport" ELSE rt.Transport]
    /\ retryStrategy' = [retryStrategy EXCEPT ![r] =
            IF rt.RetryStrategy = NilStrategy THEN DefaultStrategy ELSE rt.RetryStrategy]
    /\ rt' = [rt EXCEPT !.Transport = transport'[r], !.RetryStrategy = retryStrategy'[r]]
    /\ attempt' = [attempt EXCEPT ![r] = 0]
    /\ pc' = [pc EXCEPT ![r] = "loop"]
    /\ UNCHANGED <<outside, req, expired, resp, err, copyErr, closeErr, delay, log, waits, rewinds, result>>

\* Mutant of Begin: the attempt counter is kept across calls, a call goes
\* on from the highest attempt any other call has reached.
Begin_SharedAttempt(r) ==
    /\ pc[r] = "start"
    /\ transport' = [transport EXCEPT ![r] =
            IF rt.Transport = Nil THEN "http.DefaultTransport" ELSE rt.Transport]
    /\ retryStrategy' = [retryStrategy EXCEPT ![r] =
            IF rt.RetryStrategy = NilStrategy THEN DefaultStrategy ELSE rt.RetryStrategy]
    /\ attempt' = [attempt EXCEPT ![r] =
            CHOOSE a \in {attempt[s] : s \in Reqs} : \A s \in Reqs : attempt[s] <= a]
    /\ pc' = [pc EXCEPT ![r] = "loop"]
    /\ UNCHANGED <<outside, rt, req, expired, resp, err, copyErr, closeErr, delay, log, waits, rewinds, result>>

\* Lines 72-87: the locals, the nil defaults, attempt := 0.
Begin(r) ==
    /\ pc[r] = "start"
    /\ transport' = [transport EXCEPT ![r] =
            IF rt.Transport = Nil THEN "http.DefaultTransport" ELSE rt.Transport]
    /\ retryStrategy' = [retryStrategy EXCEPT ![r] =
            IF rt.RetryStrategy = NilStrategy THEN DefaultStrategy ELSE rt.RetryStrategy]
    /\ attempt' = [attempt EXCEPT ![r] = 0]
    /\ pc' = [pc EXCEPT ![r] = "loop"]
    /\ UNCHANGED <<outside, rt, req, expired, resp, err, copyErr, closeErr, delay, log, waits, rewinds, result>>

\* Mutant of LoopCondition: the first attempt is made whatever MaxRetries is.
LoopCondition_AfterFirst(a, maxRetries) == a = 0 \/ a <= maxRetries

\* Mutant of LoopCondition: the loop stops one attempt early.
LoopCondition_Strict(a, maxRetries) == a < maxRetries

\* The loop condition attempt <= r.MaxRetries.
LoopCondition(a, maxRetries) == a <= maxRetries

\* The condition of the body clone: req.Body != nil && req.GetBody != nil.
NeedsRewind(q) == q.Body # 0 /\ q.GetBody

\* Line 87 false, line 143: the loop ends without having returned.
LoopExit(r) ==
    /\ pc[r] = "loop"
    /\ ~LoopCondition(attempt[r], rt.MaxRetries)
    /\ Return(r, 0, ErrAllRetriesFailed)
    /\ UNCHANGED <<outside, rt, req, expired, locals, log, waits, rewinds>>

\* Mutant of Rewind: GetBody is called but its body is not put in the
\* request.
Rewind_BodyNotReplaced(r) ==
    /\ pc[r] = "loop"
    /\ LoopCondition(attempt[r], rt.MaxRetries)
    /\ NeedsRewind(req[r])
    /\ rewinds' = [rewinds EXCEPT ![r].ok = @ + 1]
    /\ pc' = [pc EXCEPT ![r] = "send"]
    /\ UNCHANGED <<outside, rt, req, expired, locals, log, waits, result>>

\* Lines 90-96 with GetBody succeeding: req.Body is the fresh clone.
Rewind(r) ==
    /\ pc[r] = "loop"
    /\ LoopCondition(attempt[r], rt.MaxRetries)
    /\ NeedsRewind(req[r])
    /\ rewinds' = [rewinds EXCEPT ![r].ok = @ + 1]
    /\ req' = [req EXCEPT ![r].Body = rewinds[r].ok + 2]
    /\ pc' = [pc EXCEPT ![r] = "send"]
    /\ UNCHANGED <<outside, rt, expired, locals, log, waits, result>>

\* Mutant of GetBodyFails: the failed rewind is handled as a failed attempt
\* and retried.
GetBodyFails_Retried(r) ==
    /\ pc[r] = "loop"
    /\ LoopCondition(attempt[r], rt.MaxRetries)
    /\ NeedsRewind(req[r])
    /\ rewinds' = [rewinds EXCEPT ![r].failed = @ + 1]
    /\ err' = [err EXCEPT ![r] = "getBodyErr"]
    /\ resp' = [resp EXCEPT ![r] = 0]
    /\ pc' = [pc EXCEPT ![r] = "retry"]
    /\ UNCHANGED <<outside, rt, req, expired, transport, retryStrategy, attempt, copyErr, closeErr, delay, log, waits, result>>

\* Lines 91-94 with GetBody failing: return nil and the wrapped error.
GetBodyFails(r) ==
    /\ pc[r] = "loop"
    /\ LoopCondition(attempt[r], rt.MaxRetries)
    /\ NeedsRewind(req[r])
    /\ rewinds' = [rewinds EXCEPT ![r].failed = @ + 1]
    /\ Return(r, 0, GetBodyError("getBodyErr"))
    /\ UNCHANGED <<outside, rt, req, expired, locals, log, waits>>

\* Line 90 false: no body or no GetBody, the request is sent as it is.
NoRewind(r) ==
    /\ pc[r] = "loop"
    /\ LoopCondition(attempt[r], rt.MaxRetries)
    /\ ~NeedsRewind(req[r])
    /\ pc' = [pc EXCEPT ![r] = "send"]
    /\ UNCHANGED <<outside, rt, req, expired, locals, log, waits, rewinds, result>>

\* Mutants of IsSuccess: a status of 500 counted as success; only a status
\* below 400 counted as success.
IsSuccess_Through500(e, status) == e = Nil /\ status <= StatusInternalServerError

IsSuccess_Below400(e, status) == e = Nil /\ status < 400

\* Line 101: err == nil && resp.StatusCode < http.StatusInternalServerError.
IsSuccess(e, status) == e = Nil /\ status < StatusInternalServerError

\* Mutant of NeedsRelease: the body is released only when there is no error.
NeedsRelease_OnlyWithoutError(hasResp, e) == hasResp /\ e = Nil

\* Line 108: resp != nil, the failed attempt has a response to release.
NeedsRelease(hasResp, e) == hasResp

\* What the wrapped transport can return for call r: past the deadline of
\* the request's context only the context's error.
OutcomesOf(r) ==
    IF expired[r] THEN {Outcome(FALSE, 0, DeadlineExceeded)}
    ELSE IF transport[r] = "testServer" THEN TestServerOutcomes
    ELSE SendOutcomes

\* Lines 98-108: the physical send, the success test and, on failure, the
\* test whether there is a response to release.  With resp and err both nil
\* line 101 dereferences a nil pointer and the call panics.
Send(r) ==
    /\ pc[r] = "send"
    /\ \E o \in OutcomesOf(r) :
        LET n == Len(log[r]) + 1
            entry == [attempt |-> attempt[r], body |-> req[r].Body,
                      waited |-> Len(waits[r]), resp |-> o.resp,
                      status |-> o.status, err |-> o.err,
                      copies |-> 0, eof |-> FALSE, closes |-> 0, closed |-> FALSE]
        IN  /\ log' = [log EXCEPT ![r] = Append(@, entry)]
            /\ resp' = [resp EXCEPT ![r] = IF o.resp THEN n ELSE 0]
            /\ err' = [err EXCEPT ![r] = o.err]
            /\ IF o.err = Nil /\ ~o.resp
               THEN /\ pc' = [pc EXCEPT ![r] = "panic"]
                    /\ UNCHANGED result
               ELSE IF IsSuccess(o.err, o.status)
               THEN Return(r, n, NoError)
               ELSE /\ pc' = [pc EXCEPT ![r] = IF NeedsRelease(o.resp, o.err) THEN "drain" ELSE "retry"]
                    /\ UNCHANGED result
    /\ UNCHANGED <<outside, rt, req, expired, transport, retryStrategy, attempt, copyErr, closeErr, delay, waits, rewinds>>

\* Line 110: io.Copy(io.Discard, resp.Body) reads the body to its end or fails.
Drain(r) ==
    /\ pc[r] = "drain"
    /\ \E e \in {Nil, "copyErr"} :
        /\ copyErr' = [copyErr EXCEPT ![r] = e]
        /\ log' = [log EXCEPT ![r][resp[r]].copies = @ + 1,
                              ![r][resp[r]].eof = (e = Nil)]
    /\ pc' = [pc EXCEPT ![r] = "close"]
    /\ UNCHANGED <<outside, rt, req, expired, transport, retryStrategy, attempt, resp, err, closeErr, delay, waits, rewinds, result>>

\* Mutant of ReleaseError: the error of Close is looked at first.
ReleaseError_CloseFirst(ce, cl) ==
    IF cl # Nil THEN CloseError(cl)
    ELSE IF ce # Nil THEN DiscardError(ce)
    ELSE NoError

\* Mutant of ReleaseError: the error of the drain is ignored.
ReleaseError_DrainIgnored(ce, cl) == IF cl # Nil THEN CloseError(cl) ELSE NoError

\* Mutant of ReleaseError: the error of Close is dropped.
ReleaseError_CloseDropped(ce, cl) == IF ce # Nil THEN DiscardError(ce) ELSE NoError

\* Lines 112-118: the error of a failed release, the copy error first.
ReleaseError(ce, cl) ==
    IF ce # Nil THEN DiscardError(ce)
    ELSE IF cl # Nil THEN CloseError(cl)
    ELSE NoError

\* Lines 111-118: resp.Body.Close(), then the two error returns.
Close(r) ==
    /\ pc[r] = "close"
    /\ \E e \in {Nil, "closeErr"} :
        /\ closeErr' = [closeErr EXCEPT ![r] = e]
        /\ log' = [log EXCEPT ![r][resp[r]].closes = @ + 1,
                              ![r][resp[r]].closed = (e = Nil)]
        /\ IF ReleaseError(copyErr[r], e) # NoError
           THEN Return(r, 0, ReleaseError(copyErr[r], e))
           ELSE /\ pc' = [pc EXCEPT ![r] = "retry"]
                /\ UNCHANGED result
    /\ UNCHANGED <<outside, rt, req, expired, transport, retryStrategy, attempt, resp, err, copyErr, delay, waits, rewinds>>

\* Mutant of ShouldRetry: one retry too many.
ShouldRetry_Through(a, maxRetries) == a <= maxRetries

\* Line 122: attempt < r.MaxRetries.
ShouldRetry(a, maxRetries) == a < maxRetries

\* Mutant of ExhaustedError: no case for a last attempt that has a response
\* and no error.
ExhaustedError_NoStatusCase(e, rsp, status) ==
    IF e # Nil THEN LastError(e) ELSE ErrAllRetriesFailed

\* Mutant of ExhaustedError: the response is looked at before the error.
ExhaustedError_ResponseFirst(e, rsp, status) ==
    IF rsp # 0 THEN StatusError(status)
    ELSE IF e # Nil THEN LastError(e)
    ELSE ErrAllRetriesFailed

\* Lines 128-137: the error returned once the budget is used up.
ExhaustedError(e, rsp, status) ==
    IF e # Nil THEN LastError(e)
    ELSE IF rsp # 0 THEN StatusError(status)
    ELSE ErrAllRetriesFailed

\* Mutant of StatusCode: the status of the first response of the call.
StatusCode_First(r) == IF resp[r] = 0 THEN 0 ELSE log[r][1].status

\* Mutant of RetryDelays: the strategy is asked with the one-based attempt
\* number the diagnostic line prints.
RetryDelays_OneBased(s, a) == StrategyDelays(s, a + 1)

\* Line 123: retryStrategy(attempt).
RetryDelays(s, a) == StrategyDelays(s, a)

\* resp.StatusCode of the local resp (0 when resp is nil).
StatusCode(r) == IF resp[r] = 0 THEN 0 ELSE log[r][resp[r]].status

\* Lines 122-125: delay := retryStrategy(attempt), and time.Sleep(delay) starts.
Retry(r) ==
    /\ pc[r] = "retry"
    /\ ShouldRetry(attempt[r], rt.MaxRetries)
    /\ \E d \in RetryDelays(retryStrategy[r], attempt[r]) :
        /\ delay' = [delay EXCEPT ![r] = d]
        /\ waits' = [waits EXCEPT ![r] =
                Append(@, [attempt |-> attempt[r], delay |-> d, sent |-> Len(log[r])])]
    /\ pc' = [pc EXCEPT ![r] = "sleep"]
    /\ UNCHANGED <<outside, rt, req, expired, transport, retryStrategy, attempt, resp, err, copyErr, closeErr, log, rewinds, result>>

\* Lines 126-138: the budget is used up, return the terminal error.
Exhausted(r) ==
    /\ pc[r] = "retry"
    /\ ~ShouldRetry(attempt[r], rt.MaxRetries)
    /\ Return(r, 0, ExhaustedError(err[r], resp[r], StatusCode(r)))
    /\ UNCHANGED <<outside, rt, req, expired, locals, log, waits, rewinds>>

\* Line 125 returns and line 87 steps the loop: attempt++.
Sleep(r) ==
    /\ pc[r] = "sleep"
    /\ attempt' = [attempt EXCEPT ![r] = @ + 1]
    /\ pc' = [pc EXCEPT ![r] = "loop"]
    /\ UNCHANGED <<outside, rt, req, expired, transport, retryStrategy, resp, err, copyErr, closeErr, delay, log, waits, rewinds, result>>

\* The deadline of the request's context (http.Client.Timeout, or the
\* caller's own) passes while the call is in progress.
DeadlineExpires(r) ==
    /\ pc[r] \notin {"idle", "done", "panic"}
    /\ ~expired[r]
    /\ expired' = [expired EXCEPT ![r] = TRUE]
    /\ UNCHANGED <<outside, rt, pc, req, locals, log, waits, rewinds, result>>

Next ==
    \E r \in Reqs :
        \/ Begin(r)
        \/ LoopExit(r)
        \/ Rewind(r)
        \/ GetBodyFails(r)
        \/ NoRewind(r)
        \/ Send(r)
        \/ Drain(r)
        \/ Close(r)
        \/ Retry(r)
        \/ Exhausted(r)
        \/ Sleep(r)
        \/ DeadlineExpires(r)

Spec == Init /\ [][Next]_vars

\* The retry transports two calls share: those of NewClient over the
\* transport "testServer", with a fixed delay and with the default strategy.
SharedTransports ==
    {NewClient(m, s, "testServer") :
        m \in (0 - 1)..ConcN, s \in {NilStrategy, FixedStrategy(100 * Millisecond)}}

\* Two logical requests on one retry transport: calls 1 and 2 enter
\* RoundTrip and run in any interleaving, one after the other included.
InitShared ==
    /\ rt \in SharedTransports
    /\ pc = [r \in Reqs |-> IF r <= 2 THEN "start" ELSE "idle"]
    /\ \E q1 \in Requests, q2 \in Requests :
          req = [r \in Reqs |-> IF r = 1 THEN q1 ELSE IF r = 2 THEN q2
                                ELSE [Body |-> 0, GetBody |-> FALSE]]
    /\ InitCalls
    /\ closure = rt.RetryStrategy
    /\ called = NotCalled
    /\ NoBuilder

SpecShared == InitShared /\ [][Next]_vars

\* ----------------------------------------------------- strategies on their own

\* The largest attempt a strategy is called with: past the width, where
\* the shift gives 0.
MaxAttempt == DurationBits + 1

\* The durations a strategy is constructed with: negative, zero, the
\* smallest, durations of the package, one whose doubling wraps around to
\* a small positive value, and the largest.
ConstructorDurations ==
    {0 - 1, 0, 1, 2, 3, 300 * Millisecond, 10 * Second,
     Pow2(DurationBits \div 2) + 1, MaxDuration}

\* The strategies the three constructors return.
ConstructedStrategies ==
    {FixedStrategy(d) : d \in ConstructorDurations}
    \cup {ExponentialStrategy(bs, mx) : bs \in ConstructorDurations, mx \in ConstructorDurations}
    \cup {JitterStrategy(bs, mx) : bs \in ConstructorDurations, mx \in ConstructorDurations}

\* No call of RoundTrip is made.
NoCalls ==
    /\ pc = [r \in Reqs |-> "idle"]
    /\ req = [r \in Reqs |-> [Body |-> 0, GetBody |-> FALSE]]
    /\ InitCalls

\* A strategy is constructed and put in a client.
InitStrategy ==
    /\ closure \in ConstructedStrategies
    /\ rt = NewClient(MaxN, closure, Nil)
    /\ called = NotCalled
    /\ NoCalls
    /\ NoBuilder

\* Build has returned a client.
Built == rt.Transport = "http.Transport"

\* The largest attempt the closure is called with.  The closure of a built
\* client is reached through RoundTrip only, which calls it with the
\* attempts below MaxRetries (line 122).
LastAttempt == IF Built THEN rt.MaxRetries - 1 ELSE MaxAttempt

\* delay := closure(attempt) for the next attempt; a panic of the call is
\* recovered by the caller.
CallStrategy ==
    /\ closure # NilStrategy
    /\ called.attempt < LastAttempt
    /\ LET a == called.attempt + 1
       IN  IF StrategyPanics(closure, a)
           THEN called' = [attempt |-> a, delay |-> 0, before |-> called.delay, panicked |-> TRUE]
           ELSE \E d \in StrategyDelays(closure, a) :
                    called' = [attempt |-> a, delay |-> d, before |-> called.delay, panicked |-> FALSE]
    /\ UNCHANGED <<rt, pc, req, expired, locals, log, waits, rewinds, result, closure, builder>>

NextStrategy == CallStrategy

SpecStrategy == InitStrategy /\ [][NextStrategy]_vars

\* -------------------------------------------------------- the ClientBuilder

\* The values a numeric With* setter is called with: the two ends of the
\* valid range and the values next to them outside.
Around(lo, hi) == {lo - 1, lo, hi, hi + 1}

\* The Strategy values WithRetryStrategy is called with, and the strings
\* WithRetryStrategyAsString is called with.
StrategyTypes ==
    {FixedDelayStrategy, JitterBackoffStrategy, ExponentialBackoffStrategy, "", "invalid"}

\* What a With* setter leaves alone.
unset == <<rt, pc, req, expired, locals, log, waits, rewinds, result,
           closure, called, given, client>>

\* WithMaxIdleConns: just sets the value.
WithMaxIdleConns ==
    /\ withs < MaxWith
    /\ \E v \in Around(ValidMinIdleConns, ValidMaxIdleConns) :
          /\ b' = [b EXCEPT !.maxIdleConns = v]
          /\ lastWith' = [op |-> "WithMaxIdleConns", arg |-> v]
    /\ withs' = withs + 1
    /\ builds' = 0
    /\ UNCHANGED unset

\* WithIdleConnTimeout: just sets the value.
WithIdleConnTimeout ==
    /\ withs < MaxWith
    /\ \E v \in Around(ValidMinIdleConnTimeout, ValidMaxIdleConnTimeout) :
          /\ b' = [b EXCEPT !.idleConnTimeout = v]
          /\ lastWith' = [op |-> "WithIdleConnTimeout", arg |-> v]
    /\ withs' = withs + 1
    /\ builds' = 0
    /\ UNCHANGED unset

\* WithTLSHandshakeTimeout: just sets the value.
WithTLSHandshakeTimeout ==
    /\ withs < MaxWith
    /\ \E v \in Around(ValidMinTLSHandshakeTimeout, ValidMaxTLSHandshakeTimeout) :
          /\ b' = [b EXCEPT !.tlsHandshakeTimeout = v]
          /\ lastWith' = [op |-> "WithTLSHandshakeTimeout", arg |-> v]
    /\ withs' = withs + 1
    /\ builds' = 0
    /\ UNCHANGED unset

\* WithExpectContinueTimeout: just sets the value.
WithExpectContinueTimeout ==
    /\ withs < MaxWith
    /\ \E v \in Around(ValidMinExpectContinueTimeout, ValidMaxExpectContinueTimeout) :
          /\ b' = [b EXCEPT !.expectContinueTimeout = v]
          /\ lastWith' = [op |-> "WithExpectContinueTimeout", arg |-> v]
    /\ withs' = withs + 1
    /\ builds' = 0
    /\ UNCHANGED unset

\* WithDisableKeepAlives: just sets the value.
WithDisableKeepAlives ==
    /\ withs < MaxWith
    /\ \E v \in BOOLEAN :
          /\ b' = [b EXCEPT !.disableKeepAlives = v]
          /\ lastWith' = [op |-> "WithDisableKeepAlives", arg |-> v]
    /\ withs' = withs + 1
    /\ builds' = 0
    /\ UNCHANGED unset

\* WithMaxIdleConnsPerHost: just sets the value.
WithMaxIdleConnsPerHost ==
    /\ withs < MaxWith
    /\ \E v \in Around(ValidMinIdleConnsPerHost, ValidMaxIdleConnsPerHost) :
          /\ b' = [b EXCEPT !.maxIdleConnsPerHost = v]
          /\ lastWith' = [op |-> "WithMaxIdleConnsPerHost", arg |-> v]
    /\ withs' = withs + 1
    /\ builds' = 0
    /\ UNCHANGED unset

\* WithTimeout: just sets the value.
WithTimeout ==
    /\ withs < MaxWith
    /\ \E v \in Around(ValidMinTimeout, ValidMaxTimeout) :
          /\ b' = [b EXCEPT !.timeout = v]
          /\ lastWith' = [op |-> "WithTimeout", arg |-> v]
    /\ withs' = withs + 1
    /\ builds' = 0
    /\ UNCHANGED unset

\* WithMaxRetries: just sets the value.
WithMaxRetries ==
    /\ withs < MaxWith
    /\ \E v \in Around(ValidMinRetries, ValidMaxRetries) :
          /\ b' = [b EXCEPT !.maxRetries = v]
          /\ lastWith' = [op |-> "WithMaxRetries", arg |-> v]
    /\ withs' = withs + 1
    /\ builds' = 0
    /\ UNCHANGED unset

\* WithRetryBaseDelay: just sets the value.
WithRetryBaseDelay ==
    /\ withs < MaxWith
    /\ \E v \in Around(ValidMinBaseDelay, ValidMaxBaseDelay) :
          /\ b' = [b EXCEPT !.retryBaseDelay = v]
          /\ lastWith' = [op |-> "WithRetryBaseDelay", arg |-> v]
    /\ withs' = withs + 1
    /\ builds' = 0
    /\ UNCHANGED unset

\* WithRetryMaxDelay: just sets the value.
WithRetryMaxDelay ==
    /\ withs < MaxWith
    /\ \E v \in Around(ValidMinMaxDelay, ValidMaxMaxDelay) :
          /\ b' = [b EXCEPT !.retryMaxDelay = v]
          /\ lastWith' = [op |-> "WithRetryMaxDelay", arg |-> v]
    /\ withs' = withs + 1
    /\ builds' = 0
    /\ UNCHANGED unset

\* WithRetryStrategy: just sets the value.
WithRetryStrategy ==
    /\ withs < MaxWith
    /\ \E v \in StrategyTypes :
          /\ b' = [b EXCEPT !.retryStrategyType = v]
          /\ lastWith' = [op |-> "WithRetryStrategy", arg |-> v]
    /\ withs' = withs + 1
    /\ builds' = 0
    /\ UNCHANGED unset

\* Mutant of WithRetryStrategyAsString: the string is stored unvalidated,
\* as WithRetryStrategy stores its argument.
WithRetryStrategyAsString_Unvalidated ==
    /\ withs < MaxWith
    /\ \E str \in StrategyTypes :
          /\ b' = [b EXCEPT !.retryStrategyType = str]
          /\ lastWith' = [op |-> "WithRetryStrategyAsString", arg |-> str]
    /\ withs' = withs + 1
    /\ builds' = 0
    /\ UNCHANGED unset

\* WithRetryStrategyAsString: an invalid string sets the exponential type.
WithRetryStrategyAsString ==
    /\ withs < MaxWith
    /\ \E str \in StrategyTypes :
          /\ b' = [b EXCEPT !.retryStrategyType =
                    IF ~IsValid(str) THEN ExponentialBackoffStrategy ELSE str]
          /\ lastWith' = [op |-> "WithRetryStrategyAsString", arg |-> str]
    /\ withs' = withs + 1
    /\ builds' = 0
    /\ UNCHANGED unset

\* Mutant of Validated: the ends of the valid range count as invalid.
Validated_EndsInvalid(v, lo, hi, def) == IF v <= lo \/ v >= hi THEN def ELSE v

\* Build, lines 284-328: a value outside lo..hi is replaced by the default.
Validated(v, lo, hi, def) == IF v < lo \/ v > hi THEN def ELSE v

\* Build, lines 331-339: the final strategy type.
FinalStrategyType(t) ==
    IF t \in {FixedDelayStrategy, JitterBackoffStrategy, ExponentialBackoffStrategy}
    THEN t ELSE ExponentialBackoffStrategy

\* Mutant of FinalRetryStrategy: the fixed strategy is built from the
\* max delay.
FinalRetryStrategy_FixedFromMax(t, baseDelay, maxDelay) ==
    CASE t = FixedDelayStrategy -> FixedStrategy(maxDelay)
      [] t = JitterBackoffStrategy -> JitterStrategy(baseDelay, maxDelay)
      [] OTHER -> ExponentialStrategy(baseDelay, maxDelay)

\* Mutant of FinalRetryStrategy: the jitter type has no case of its own
\* and falls to the default.
FinalRetryStrategy_NoJitterCase(t, baseDelay, maxDelay) ==
    CASE t = FixedDelayStrategy -> FixedStrategy(baseDelay)
      [] t = ExponentialBackoffStrategy -> ExponentialStrategy(baseDelay, maxDelay)
      [] OTHER -> ExponentialStrategy(baseDelay, maxDelay)

\* Build, lines 342-353: the strategy function of the final type.
FinalRetryStrategy(t, baseDelay, maxDelay) ==
    CASE t = FixedDelayStrategy -> FixedStrategy(baseDelay)
      [] t = JitterBackoffStrategy -> JitterStrategy(baseDelay, maxDelay)
      [] t = ExponentialBackoffStrategy -> ExponentialStrategy(baseDelay, maxDelay)
      [] OTHER -> ExponentialStrategy(baseDelay, maxDelay)

\* Mutant of ValidatedClient: the validated maxRetries is stored as the
\* number of attempts, one more.
ValidatedClient_StoresAttempts(c) ==
    [c EXCEPT
        !.maxIdleConns = Validated(@, ValidMinIdleConns, ValidMaxIdleConns, DefaultMaxIdleConns),
        !.idleConnTimeout = Validated(@, ValidMinIdleConnTimeout, ValidMaxIdleConnTimeout, DefaultIdleConnTimeout),
        !.tlsHandshakeTimeout = Validated(@, ValidMinTLSHandshakeTimeout, ValidMaxTLSHandshakeTimeout, DefaultTLSHandshakeTimeout),
        !.expectContinueTimeout = Validated(@, ValidMinExpectContinueTimeout, ValidMaxExpectContinueTimeout, DefaultExpectContinueTimeout),
        !.maxIdleConnsPerHost = Validated(@, ValidMinIdleConnsPerHost, ValidMaxIdleConnsPerHost, DefaultMaxIdleConnsPerHost),
        !.timeout = Validated(@, ValidMinTimeout, ValidMaxTimeout, DefaultTimeout),
        !.maxRetries = Validated(@, ValidMinRetries, ValidMaxRetries, DefaultMaxRetries) + 1,
        !.retryBaseDelay = Validated(@, ValidMinBaseDelay, ValidMaxBaseDelay, DefaultBaseDelay),
        !.retryMaxDelay = Validated(@, ValidMinMaxDelay, ValidMaxMaxDelay, DefaultMaxDelay)]

\* b.client after the validation of Build, lines 284-328.
ValidatedClient(c) ==
    [c EXCEPT
        !.maxIdleConns = Validated(@, ValidMinIdleConns, ValidMaxIdleConns, DefaultMaxIdleConns),
        !.idleConnTimeout = Validated(@, ValidMinIdleConnTimeout, ValidMaxIdleConnTimeout, DefaultIdleConnTimeout),
        !.tlsHandshakeTimeout = Validated(@, ValidMinTLSHandshakeTimeout, ValidMaxTLSHandshakeTimeout, DefaultTLSHandshakeTimeout),
        !.expectContinueTimeout = Validated(@, ValidMinExpectContinueTimeout, ValidMaxExpectContinueTimeout, DefaultExpectContinueTimeout),
        !.maxIdleConnsPerHost = Validated(@, ValidMinIdleConnsPerHost, ValidMaxIdleConnsPerHost, DefaultMaxIdleConnsPerHost),
        !.timeout = Validated(@, ValidMinTimeout, ValidMaxTimeout, DefaultTimeout),
        !.maxRetries = Validated(@, ValidMinRetries, ValidMaxRetries, DefaultMaxRetries),
        !.retryBaseDelay = Validated(@, ValidMinBaseDelay, ValidMaxBaseDelay, DefaultBaseDelay),
        !.retryMaxDelay = Validated(@, ValidMinMaxDelay, ValidMaxMaxDelay, DefaultMaxDelay)]

\* Build: validates b.client in place, makes the strategy function, the
\* http.Transport and the http.Client over a retryTransport.
Build ==
    LET c == ValidatedClient(b)
        finalRetryStrategy ==
            FinalRetryStrategy(FinalStrategyType(c.retryStrategyType),
                               c.retryBaseDelay, c.retryMaxDelay)
    IN  /\ given' = b
        /\ b' = c
        /\ client' = [Timeout |-> c.timeout,
                      Transport |-> [MaxIdleConns |-> c.maxIdleConns,
                                     IdleConnTimeout |-> c.idleConnTimeout,
                                     TLSHandshakeTimeout |-> c.tlsHandshakeTimeout,
                                     ExpectContinueTimeout |-> c.expectContinueTimeout,
                                     DisableKeepAlives |-> c.disableKeepAlives,
                                     MaxIdleConnsPerHost |-> c.maxIdleConnsPerHost]]
        /\ rt' = [Transport |-> "http.Transport", MaxRetries |-> c.maxRetries,
                  RetryStrategy |-> finalRetryStrategy]
        /\ closure' = finalRetryStrategy
        /\ called' = NotCalled
        /\ builds' = IF builds < 2 THEN builds + 1 ELSE builds
        /\ UNCHANGED <<withs, lastWith, pc, req, expired, locals, log, waits, rewinds, result>>

\* A new ClientBuilder; no client is built yet and no call is made.
InitBuilder ==
    /\ b = NewClientBuilder
    /\ withs = 0
    /\ given = NewClientBuilder
    /\ client = NoClient
    /\ lastWith = NoWith
    /\ builds = 0
    /\ rt = [Transport |-> Nil, MaxRetries |-> 0, RetryStrategy |-> NilStrategy]
    /\ closure = NilStrategy
    /\ called = NotCalled
    /\ NoCalls

NextBuilder ==
    \/ WithMaxIdleConns
    \/ WithIdleConnTimeout
    \/ WithTLSHandshakeTimeout
    \/ WithExpectContinueTimeout
    \/ WithDisableKeepAlives
    \/ WithMaxIdleConnsPerHost
    \/ WithTimeout
    \/ WithMaxRetries
    \/ WithRetryBaseDelay
    \/ WithRetryMaxDelay
    \/ WithRetryStrategy
    \/ WithRetryStrategyAsString
    \/ Build
    \/ CallStrategy

SpecBuilder == InitBuilder /\ [][NextBuilder]_vars

\* ------------------------------------------------------------------- claims

\* What the claims read from the observations of a call.
Sends(r) == Len(log[r])

Waits(r) == Len(waits[r])

Returned(r) == pc[r] = "done"

\* A send that produced no transport error and a status below 500.
GoodSend(e) == e.resp /\ e.err = Nil /\ e.status < 500

\* A send that produced a response of status 500 or more and no error.
ServerErrorSend(e) == e.resp /\ e.err = Nil /\ e.status >= 500

\* A response body that was read to its end once and closed once, both
\* without error.
Released(e) == e.copies = 1 /\ e.eof /\ e.closes = 1 /\ e.closed

\* A response body RoundTrip has neither read nor closed.
Untouched(e) == e.copies = 0 /\ ~e.eof /\ e.closes = 0 /\ ~e.closed

\* C1: when RoundTrip has returned, it returned a response exactly if its
\* last physical send produced no transport error and a status below 500;
\* a returned response is the one of that send and comes with a nil error,
\* and when no response is returned the error is not nil.
C1_ResponseIffLastSendGood ==
    \A r \in Reqs :
        Returned(r) =>
            LET n == Sends(r)
                res == result[r]
            IN  /\ (res.resp # 0) <=> (n > 0 /\ GoodSend(log[r][n]))
                /\ res.resp # 0 =>
                      /\ res.resp = n
                      /\ res.err = NoError
                      /\ log[r][res.resp].status < 500
                /\ res.resp = 0 => res.err # NoError

\* A 500 was retried and the 499 that followed was returned as it is.
C1_Witness ==
    \E r \in Reqs :
        /\ Returned(r)
        /\ Sends(r) = 2
        /\ log[r][1].status = 500 /\ log[r][1].err = Nil
        /\ result[r].resp = 2
        /\ log[r][2].status = 499
        /\ Untouched(log[r][2])

\* C2: with MaxRetries = N >= 0 the attempt index stays within 0..N, the
\* i-th physical send is made at attempt i - 1 (the index starts at 0 and
\* grows by one per send), and there are never more than N + 1 sends.
C2_AttemptWithinBudget ==
    rt.MaxRetries >= 0 =>
        \A r \in Reqs :
            /\ attempt[r] \in 0..rt.MaxRetries
            /\ Sends(r) <= rt.MaxRetries + 1
            /\ \A i \in 1..Sends(r) : log[r][i].attempt = i - 1
            /\ Sends(r) - attempt[r] \in {0, 1}

\* The whole budget was used: MaxN + 1 sends, the last at attempt MaxN.
C2_Witness ==
    \E r \in Reqs :
        /\ rt.MaxRetries = MaxN
        /\ Sends(r) = MaxN + 1
        /\ attempt[r] = MaxN
        /\ log[r][MaxN + 1].attempt = MaxN

\* Every physical send of call r so far failed with a response of status
\* 500 or more and no error, and every one of these bodies was drained and
\* closed without error.
AlwaysServerError(r) ==
    /\ Sends(r) > 0
    /\ \A i \in 1..Sends(r) : ServerErrorSend(log[r][i]) /\ Released(log[r][i])

\* What C3 says of a returned call: N + 1 sends, N waits, no response, and
\* the error that wraps ErrAllRetriesFailed with the last status code.
ExhaustedByStatus(r) ==
    /\ Sends(r) = rt.MaxRetries + 1
    /\ Waits(r) = rt.MaxRetries
    /\ result[r].resp = 0
    /\ result[r].err.wraps = "ErrAllRetriesFailed"
    /\ result[r].err.status = log[r][Sends(r)].status
    /\ result[r].err = StatusError(log[r][Sends(r)].status)

\* C3 as stated: a returned call with MaxRetries = N >= 0 whose every send
\* failed with a status of 500 or more (bodies drained and closed without
\* error) made exactly N + 1 sends and N waits and returned the exhaustion
\* error with the last status code.
C3_Original ==
    \A r \in Reqs :
        (Returned(r) /\ rt.MaxRetries >= 0 /\ AlwaysServerError(r)) => ExhaustedByStatus(r)

\* C3 as amended: the same, for a call none of whose body rewinds failed.
C3_ServerErrorsExhaustBudget ==
    \A r \in Reqs :
        (Returned(r) /\ rt.MaxRetries >= 0 /\ AlwaysServerError(r) /\ rewinds[r].failed = 0)
            => ExhaustedByStatus(r)

\* MaxN + 1 sends answered 500 ... 503: the error carries 503, the last.
C3_Witness ==
    \E r \in Reqs :
        /\ Returned(r)
        /\ rt.MaxRetries = MaxN
        /\ AlwaysServerError(r)
        /\ Sends(r) = MaxN + 1
        /\ Waits(r) = MaxN
        /\ log[r][1].status = 500
        /\ log[r][MaxN + 1].status = 503
        /\ result[r] = [resp |-> 0, err |-> StatusError(503)]

\* C4: a send that succeeds (no error, status below 500) after k failed
\* sends is the last send of the call: the call has returned that response
\* with a nil error, it made k + 1 sends and k waits (none when the first
\* send succeeds), and every response of the k failed sends was drained and
\* closed.
C4_SuccessAfterFailures ==
    \A r \in Reqs :
        \A j \in 1..Sends(r) :
            GoodSend(log[r][j]) =>
                /\ j = Sends(r)
                /\ j <= rt.MaxRetries + 1
                /\ Returned(r)
                /\ result[r] = [resp |-> j, err |-> NoError]
                /\ Waits(r) = j - 1
                /\ Untouched(log[r][j])
                /\ \A i \in 1..(j - 1) :
                      /\ ~GoodSend(log[r][i])
                      /\ log[r][i].resp => Released(log[r][i])

\* MaxN failed sends, each with a response, then a 200 that is returned.
C4_Witness ==
    \E r \in Reqs :
        /\ Returned(r)
        /\ Sends(r) = MaxN + 1
        /\ \A i \in 1..MaxN : log[r][i].resp /\ Released(log[r][i])
        /\ log[r][MaxN + 1].status = 200
        /\ result[r] = [resp |-> MaxN + 1, err |-> NoError]
        /\ Waits(r) = MaxN

\* The response of send i is the one the call returned.
IsReturned(r, i) == result[r].resp = i

\* C5 as stated: when RoundTrip has returned, every response the wrapped
\* transport produced is either the returned one, its body neither read nor
\* closed, or a discarded one whose body was fully drained and closed
\* exactly once.
C5_Original ==
    \A r \in Reqs :
        Returned(r) =>
            \A i \in 1..Sends(r) :
                log[r][i].resp =>
                    \/ IsReturned(r, i) /\ Untouched(log[r][i])
                    \/ /\ ~IsReturned(r, i)
                       /\ log[r][i].copies = 1 /\ log[r][i].eof
                       /\ log[r][i].closes = 1

\* C5 as amended: a discarded response was drained once and Close was
\* called on its body exactly once; the drain read the body to its end
\* unless the drain itself failed, which only happens to the last response
\* and is the error the call returned.
C5_ReturnedOrReleased ==
    \A r \in Reqs :
        Returned(r) =>
            \A i \in 1..Sends(r) :
                log[r][i].resp =>
                    \/ IsReturned(r, i) /\ Untouched(log[r][i])
                    \/ /\ ~IsReturned(r, i)
                       /\ log[r][i].copies = 1
                       /\ log[r][i].closes = 1
                       /\ \/ log[r][i].eof
                          \/ /\ i = Sends(r)
                             /\ result[r] = [resp |-> 0, err |-> DiscardError("copyErr")]

\* A call that returned the drain error: the earlier response was fully
\* drained, the last one was not, and both were closed once.
C5_Witness ==
    \E r \in Reqs :
        /\ Returned(r)
        /\ Sends(r) = 2
        /\ log[r][1].resp /\ Released(log[r][1])
        /\ log[r][2].resp /\ ~log[r][2].eof
        /\ log[r][2].copies = 1 /\ log[r][2].closes = 1
        /\ result[r].err = DiscardError("copyErr")

\* Call r used up its budget: it has returned, its last send was the one at
\* attempt MaxRetries, that send failed, and its response, if any, was
\* drained and closed without error.
BudgetExhausted(r) ==
    /\ Returned(r)
    /\ rt.MaxRetries >= 0
    /\ Sends(r) = rt.MaxRetries + 1
    /\ ~GoodSend(log[r][Sends(r)])
    /\ log[r][Sends(r)].resp => Released(log[r][Sends(r)])

\* C6: when the budget is exhausted the terminal error is decided by the
\* last attempt alone: a transport error of the last attempt is wrapped and
\* returned (also when a response came with it), and the error is then not
\* ErrAllRetriesFailed; without a transport error the error wraps
\* ErrAllRetriesFailed and carries the last status code.
C6_TerminalErrorOfLastAttempt ==
    \A r \in Reqs :
        BudgetExhausted(r) =>
            LET last == log[r][Sends(r)]
            IN  /\ result[r].resp = 0
                /\ last.err # Nil =>
                      /\ result[r].err = LastError(last.err)
                      /\ result[r].err.wraps = last.err
                      /\ result[r].err.wraps # "ErrAllRetriesFailed"
                /\ last.err = Nil =>
                      /\ last.status >= 500
                      /\ result[r].err = StatusError(last.status)
                      /\ result[r].err.wraps = "ErrAllRetriesFailed"

\* The first attempt failed with errB and no response, the last one with a
\* response of status 500 together with errA: the error wraps errA.
C6_Witness ==
    \E r \in Reqs :
        /\ BudgetExhausted(r)
        /\ Sends(r) >= 2
        /\ log[r][1].err = "errB" /\ ~log[r][1].resp
        /\ log[r][Sends(r)].resp /\ log[r][Sends(r)].status = 500
        /\ log[r][Sends(r)].err = "errA"
        /\ result[r].err = LastError("errA")

\* C7: once a body rewind has failed the call has returned the body-replay
\* error and no response; the failed rewind was the only one, no send was
\* made for its attempt or after it (the sends are those of the earlier
\* attempts) and no wait followed it, whatever is left of the budget.
C7_RewindFailureIsTerminal ==
    \A r \in Reqs :
        rewinds[r].failed > 0 =>
            /\ Returned(r)
            /\ result[r] = [resp |-> 0, err |-> GetBodyError("getBodyErr")]
            /\ rewinds[r].failed = 1
            /\ rewinds[r].ok = attempt[r]
            /\ Sends(r) = attempt[r]
            /\ Waits(r) = attempt[r]
            /\ \A i \in 1..Sends(r) : log[r][i].attempt < attempt[r]

\* The rewind failed at attempt 1 of a budget of MaxN = 2 or more retries.
C7_Witness ==
    \E r \in Reqs :
        /\ rewinds[r].failed = 1
        /\ attempt[r] = 1
        /\ rt.MaxRetries = MaxN
        /\ Sends(r) = 1
        /\ Returned(r)

\* The drain of the response failed.
DrainFailed(e) == e.copies > 0 /\ ~e.eof

\* The drain of the response succeeded and its Close failed.
CloseFailed(e) == e.eof /\ e.closes > 0 /\ ~e.closed

\* C8: a response whose drain or close failed is the last one of the call:
\* no send and no wait follows it, and once Close has been called the call
\* has returned the drain error, or the close error when the drain
\* succeeded, never an exhaustion error, also at the last attempt.
C8_ReleaseFailureIsTerminal ==
    \A r \in Reqs :
        \A i \in 1..Sends(r) :
            LET e == log[r][i]
            IN  /\ DrainFailed(e) =>
                      /\ i = Sends(r)
                      /\ Waits(r) = i - 1
                      /\ pc[r] \in {"close", "done"}
                      /\ e.closes = 1 => Returned(r)
                      /\ Returned(r) =>
                            result[r] = [resp |-> 0, err |-> DiscardError("copyErr")]
                /\ CloseFailed(e) =>
                      /\ i = Sends(r)
                      /\ Waits(r) = i - 1
                      /\ Returned(r)
                      /\ result[r] = [resp |-> 0, err |-> CloseError("closeErr")]

\* The close failed at the last attempt of the budget, where the exhaustion
\* error would have been due: the close error is returned.
C8_Witness ==
    \E r \in Reqs :
        /\ Returned(r)
        /\ rt.MaxRetries = MaxN
        /\ Sends(r) = MaxN + 1
        /\ ServerErrorSend(log[r][MaxN + 1])
        /\ CloseFailed(log[r][MaxN + 1])
        /\ result[r].err = CloseError("closeErr")

\* The strategy call r uses: the configured one, or the default when the
\* retry transport has none.
StrategyOf(r) ==
    IF rt.RetryStrategy = NilStrategy
    THEN ExponentialStrategy(500 * Millisecond, 10 * Second)
    ELSE rt.RetryStrategy

\* C9: the i-th send is made after exactly i - 1 waits (none before the
\* first, one between consecutive sends); the j-th wait follows the j-th
\* send, its duration is the strategy's delay for attempt j - 1, and
\* attempt j - 1 is below MaxRetries (no wait after attempt MaxRetries).
C9_OneWaitBetweenSends ==
    \A r \in Reqs :
        /\ \A i \in 1..Sends(r) : log[r][i].waited = i - 1
        /\ \A j \in 1..Waits(r) :
              /\ waits[r][j].sent = j
              /\ waits[r][j].attempt = j - 1
              /\ waits[r][j].attempt < rt.MaxRetries
              /\ waits[r][j].delay \in StrategyDelays(StrategyOf(r), j - 1)
        /\ Waits(r) <= Sends(r)

\* ExponentialBackoff(200ms, 500ms): the waits after attempts 0 and 1 last
\* 200ms and 400ms, and the third send follows them.
C9_Witness ==
    \E r \in Reqs :
        /\ rt.RetryStrategy = ExponentialStrategy(200 * Millisecond, 500 * Millisecond)
        /\ Sends(r) = 3
        /\ Waits(r) = 2
        /\ waits[r][1].delay = 200 * Millisecond
        /\ waits[r][2].delay = 400 * Millisecond

\* C10: once a send of call r has failed with the error of the expired
\* deadline, the call starts no further send and no further wait.
C10_NoRetryPastDeadline ==
    [][\A r \in Reqs :
          (expired[r] /\ \E i \in 1..Sends(r) : log[r][i].err = DeadlineExceeded)
              => /\ Len(log'[r]) = Len(log[r])
                 /\ Len(waits'[r]) = Len(waits[r])]_vars

\* What call r has observed of its own run: the outcome of each of its
\* sends and of the release of each failed response, and its failed rewinds.
OwnOutcomes(r) ==
    <<[i \in 1..Sends(r) |->
          <<log[r][i].resp, log[r][i].status, log[r][i].err,
            log[r][i].copies, log[r][i].eof, log[r][i].closes, log[r][i].closed>>],
      rewinds[r].failed>>

\* The request call r was given: the caller's body (1) or none, and GetBody.
GivenRequest(r) == [Body |-> IF req[r].Body = 0 THEN 0 ELSE 1, GetBody |-> req[r].GetBody]

\* One step of call r in RoundTrip.
Proceeds(r) ==
    \/ Begin(r) \/ LoopExit(r) \/ Rewind(r) \/ GetBodyFails(r) \/ NoRewind(r)
    \/ Send(r) \/ Drain(r) \/ Close(r) \/ Retry(r) \/ Exhausted(r) \/ Sleep(r)

InProgress(r) == pc[r] \notin {"idle", "done", "panic"}

\* C12: RoundTrip never modifies the retry transport: no step of any call
\* changes Transport, MaxRetries or RetryStrategy, also when a field is
\* nil and the call uses the default.
C12_ConfigNeverModified == [][rt' = rt]_vars

C12_Witness ==
    /\ Returned(1)
    /\ rt.Transport = Nil /\ rt.RetryStrategy = NilStrategy
    /\ transport[1] = "http.DefaultTransport"
    /\ retryStrategy[1] = DefaultStrategy
    /\ Waits(1) >= 1

\* C11: calls sharing one retry transport are independent.  Each call makes
\* its i-th send at attempt i-1, so it starts at attempt 0, and makes at
\* most MaxRetries+1 sends; while one call is in its delay wait, or in any
\* other position, every other call in progress can take its next step;
\* and two returned calls given the same request that observed the same
\* outcomes have the same result and the same delay waits, whatever the
\* interleaving.
C11_CallsIndependent ==
    /\ \A r \in Reqs :
          /\ \A i \in 1..Sends(r) : log[r][i].attempt = i - 1
          /\ rt.MaxRetries >= 0 => Sends(r) <= rt.MaxRetries + 1
          /\ pc[r] = "loop" /\ Sends(r) = 0 => attempt[r] = 0
    /\ \A r \in Reqs : \A s \in Reqs \ {r} :
          /\ InProgress(s) => ENABLED Proceeds(s)
          /\ Returned(r) /\ Returned(s) /\ GivenRequest(r) = GivenRequest(s)
                /\ OwnOutcomes(r) = OwnOutcomes(s)
             => result[r] = result[s] /\ waits[r] = waits[s]

C11_Witness ==
    /\ pc[1] = "sleep" /\ attempt[1] = 0 /\ Sends(1) = 1
    /\ pc[2] = "send" /\ attempt[2] = 1 /\ Sends(2) = 1 /\ Waits(2) = 1

\* The strategy has been called at least once.
WasCalled == called.attempt >= 0

\* The exponential delay of the last call's attempt.
ExpDelay == ExponentialBackoff(closure.base, closure.max, called.attempt)

\* min(x * 2^k, cap) over unbounded integers: once a positive x has reached
\* cap the minimum is cap, so no product larger than 2 * cap is formed.
RECURSIVE MinDoubled(_, _, _)
MinDoubled(x, cap, k) ==
    IF k = 0 THEN (IF x < cap THEN x ELSE cap)
    ELSE IF x > 0 /\ x >= cap THEN cap
    ELSE MinDoubled(2 * x, cap, k - 1)

\* C13: for 0 <= base <= cap the delay of ExponentialBackoff(base, cap) does not
\* decrease from one attempt to the next, stays at cap once it is cap, and
\* never exceeds cap.
C13_NonDecreasingUpToCap ==
    closure.kind = "exponential" /\ 0 <= closure.base /\ closure.base <= closure.max /\ WasCalled
    => /\ called.delay <= closure.max
       /\ called.attempt >= 1 =>
            /\ called.before <= called.delay
            /\ called.before = closure.max => called.delay = closure.max

\* C14: for 0 <= base <= cap, base = 0 included, ExponentialBackoff(base, cap)
\* returns min(base * 2^attempt, cap) as computed over unbounded integers.
C14_EqualsReferenceMin ==
    closure.kind = "exponential" /\ 0 <= closure.base /\ closure.base <= closure.max /\ WasCalled
    => called.delay = MinDoubled(closure.base, closure.max, called.attempt)

\* C15: for base > cap ExponentialBackoff(base, cap) returns base at
\* attempt 0 and a value of at most cap at every later attempt.
C15_BaseAboveCap ==
    closure.kind = "exponential" /\ closure.base > closure.max /\ WasCalled
    => /\ called.attempt = 0 => called.delay = closure.base
       /\ called.attempt >= 1 => called.delay <= closure.max

C15_Witness ==
    /\ closure = ExponentialStrategy(10 * Second, 300 * Millisecond)
    /\ called.attempt = 1
    /\ called.before = 10 * Second
    /\ called.delay = 300 * Millisecond

\* C16: every call of JitterBackoff(base, cap), base and cap not negative, returns a delay d with
\* expDelay <= d < 1.5 * expDelay, expDelay the exponential delay of the
\* attempt.
C16_JitterWithinHalf ==
    closure.kind = "jitter" /\ 0 <= closure.base /\ 0 <= closure.max /\ WasCalled
    => /\ ~called.panicked
       /\ ExpDelay <= called.delay
       /\ 2 * called.delay < 3 * ExpDelay

\* C17: a strategy constructed with non-negative durations returns no
\* negative delay, whatever the attempt.
C17_NeverNegative ==
    closure.base >= 0 /\ closure.max >= 0 /\ WasCalled /\ ~called.panicked
    => called.delay >= 0

\* A setting as Build is to use it: kept if it lies in lo..hi, else the
\* default.
Kept(v, lo, hi, def) == IF lo <= v /\ v <= hi THEN v ELSE def

\* The max delay Build was given, validated.
ValidatedMaxDelay == Kept(given.retryMaxDelay, ValidMinMaxDelay, ValidMaxMaxDelay, DefaultMaxDelay)

\* The base delay Build was given, validated.
ValidatedBaseDelay == Kept(given.retryBaseDelay, ValidMinBaseDelay, ValidMaxBaseDelay, DefaultBaseDelay)

\* C18: the exponential or jitter strategy of a built client returns no
\* delay above the validated max delay, whatever the base delay, the max
\* delay and the attempt.
C18_MaxDelayCaps ==
    Built /\ closure.kind \in {"exponential", "jitter"} /\ WasCalled /\ ~called.panicked
    => called.delay <= ValidatedMaxDelay

\* C19: a fixed strategy returns its delay d at every attempt, and the
\* fixed strategy of a built client has the validated base delay as d.
C19_FixedIsConstant ==
    /\ closure.kind = "fixed" /\ WasCalled =>
          /\ ~called.panicked
          /\ called.delay = closure.base
          /\ called.attempt >= 1 => called.before = closure.base
    /\ Built /\ given.retryStrategyType = FixedDelayStrategy =>
          /\ closure.kind = "fixed"
          /\ closure.base = ValidatedBaseDelay
          /\ rt.RetryStrategy = closure

C19_Witness ==
    /\ Built
    /\ given.retryStrategyType = FixedDelayStrategy
    /\ given.retryBaseDelay = ValidMaxBaseDelay
    /\ called = [attempt |-> 2, delay |-> ValidMaxBaseDelay, before |-> ValidMaxBaseDelay,
                 panicked |-> FALSE]

\* C20: Build uses every numeric setting as given if it lies in its valid
\* range and the default otherwise; MaxRetries of the built retry transport
\* is within ValidMinRetries..ValidMaxRetries (DefaultMaxRetries for a
\* configured 0), and the delays the strategy is built with are within
\* their valid ranges.
C20_BuildValidates ==
    Built =>
    /\ client.Transport.MaxIdleConns =
          Kept(given.maxIdleConns, ValidMinIdleConns, ValidMaxIdleConns, DefaultMaxIdleConns)
    /\ client.Transport.IdleConnTimeout =
          Kept(given.idleConnTimeout, ValidMinIdleConnTimeout, ValidMaxIdleConnTimeout, DefaultIdleConnTimeout)
    /\ client.Transport.TLSHandshakeTimeout =
          Kept(given.tlsHandshakeTimeout, ValidMinTLSHandshakeTimeout, ValidMaxTLSHandshakeTimeout, DefaultTLSHandshakeTimeout)
    /\ client.Transport.ExpectContinueTimeout =
          Kept(given.expectContinueTimeout, ValidMinExpectContinueTimeout, ValidMaxExpectContinueTimeout, DefaultExpectContinueTimeout)
    /\ client.Transport.MaxIdleConnsPerHost =
          Kept(given.maxIdleConnsPerHost, ValidMinIdleConnsPerHost, ValidMaxIdleConnsPerHost, DefaultMaxIdleConnsPerHost)
    /\ client.Timeout = Kept(given.timeout, ValidMinTimeout, ValidMaxTimeout, DefaultTimeout)
    /\ rt.MaxRetries = Kept(given.maxRetries, ValidMinRetries, ValidMaxRetries, DefaultMaxRetries)
    /\ rt.MaxRetries \in ValidMinRetries..ValidMaxRetries
    /\ given.maxRetries = 0 => rt.MaxRetries = DefaultMaxRetries
    /\ closure.base = ValidatedBaseDelay
    /\ closure.base \in ValidMinBaseDelay..ValidMaxBaseDelay
    /\ closure.kind # "fixed" =>
          /\ closure.max = ValidatedMaxDelay
          /\ closure.max \in ValidMinMaxDelay..ValidMaxMaxDelay

C20_Witness ==
    /\ Built
    /\ given.maxRetries = 0 /\ rt.MaxRetries = DefaultMaxRetries
    /\ given.retryBaseDelay = ValidMaxBaseDelay /\ closure.base = ValidMaxBaseDelay

\* The strategy function the claim names for a stored type t.
SelectedStrategy(t) ==
    IF t = "fixed" THEN FixedStrategy(ValidatedBaseDelay)
    ELSE IF t = "jitter" THEN JitterStrategy(ValidatedBaseDelay, ValidatedMaxDelay)
    ELSE ExponentialStrategy(ValidatedBaseDelay, ValidatedMaxDelay)

\* C21: the strategy of a built client is the one of the stored type with
\* the validated delays, the exponential one for every other stored type;
\* a builder with no setting changed builds
\* ExponentialBackoff(DefaultBaseDelay, DefaultMaxDelay).
C21_StrategySelectedByType ==
    Built =>
    /\ closure = SelectedStrategy(given.retryStrategyType)
    /\ rt.RetryStrategy = closure
    /\ given = NewClientBuilder => closure = ExponentialStrategy(DefaultBaseDelay, DefaultMaxDelay)

C21_Witness ==
    /\ Built
    /\ lastWith = [op |-> "WithRetryStrategy", arg |-> "invalid"]
    /\ given.retryStrategyType = "invalid"
    /\ closure = ExponentialStrategy(DefaultBaseDelay, DefaultMaxDelay)

\* The type the claim has WithRetryStrategyAsString(str) store.
StoredForString(str) ==
    IF str \in {"fixed", "jitter", "exponential"} THEN str ELSE "exponential"

\* C22: a call WithRetryStrategyAsString(str) stores str if it is one of
\* fixed, jitter, exponential, which are the valid types, and exponential
\* otherwise; it changes no other field of the builder and nothing built.
C22_AsStringStoresValidType ==
    [][lastWith'.op = "WithRetryStrategyAsString" /\ withs' = withs + 1
       => /\ b' = [b EXCEPT !.retryStrategyType = StoredForString(lastWith'.arg)]
          /\ IsValid(lastWith'.arg) <=> lastWith'.arg \in {"fixed", "jitter", "exponential"}
          /\ IsValid(b'.retryStrategyType)
          /\ UNCHANGED <<given, client, rt, closure>>]_vars

C22_Witness ==
    /\ lastWith = [op |-> "WithRetryStrategyAsString", arg |-> ""]
    /\ withs = 2
    /\ b.retryStrategyType = "exponential"
    /\ b.maxRetries = 0

\* C30: a second Build with no With* call since the first changes no
\* stored setting and returns a client with the same timeout, transport
\* settings, MaxRetries and strategy.
C30_BuildIdempotent ==
    [][builds = 1 /\ builds' = 2
       => /\ b' = b
          /\ given' = b
          /\ client' = client
          /\ rt' = rt
          /\ closure' = closure]_vars

C30_Witness ==
    /\ builds = 2
    /\ lastWith = [op |-> "WithMaxRetries", arg |-> 0]
    /\ given.maxRetries = DefaultMaxRetries
    /\ rt.MaxRetries = DefaultMaxRetries

\* Call r is between attempts or past them: about to rewind or send, about
\* to start the delay wait or to build the exhaustion error, or waiting.
BetweenAttempts(r) == pc[r] \in {"loop", "send", "retry", "sleep"}

\* Call r has returned an error.
ReturnedError(r) == Returned(r) /\ result[r].err # NoError

\* Drained to the end once, and Close called once after it.
DrainedAndClosed(e) == e.copies = 1 /\ e.eof /\ e.closes = 1

\* The steps of an attempt in the order rewind, send, drain, close, delay:
\* one successful rewind per send made or about to be made when the body
\* is replayable, Close never before the drain, and the delay wait of the
\* attempt not started while its response is being released.
AttemptOrder(r) ==
    /\ \A i \in 1..Sends(r) :
          /\ log[r][i].closes <= log[r][i].copies
          /\ log[r][i].waited = i - 1
          /\ NeedsRewind(GivenRequest(r)) => log[r][i].body = i + 1
    /\ pc[r] \in {"drain", "close"} =>
          /\ resp[r] = Sends(r)
          /\ Waits(r) = Sends(r) - 1
          /\ \A i \in 1..(Sends(r) - 1) : log[r][i].resp => Released(log[r][i])
    /\ pc[r] = "close" => log[r][Sends(r)].copies = 1

\* C23 as stated: the steps of an attempt are ordered rewind, send, drain,
\* close, delay, and the response of every failed attempt is fully drained
\* and closed when the delay wait or the next send starts and when the
\* call returns a terminal error.
C23_Original ==
    \A r \in Reqs :
        /\ AttemptOrder(r)
        /\ BetweenAttempts(r) \/ ReturnedError(r) =>
              \A i \in 1..Sends(r) : log[r][i].resp => DrainedAndClosed(log[r][i])

\* C23 as amended: the same, except that the terminal error of a failed
\* drain is built with the last response closed but not fully drained;
\* where a delay wait or a send starts, or the exhaustion error is built,
\* every response so far was drained to its end and closed without error.
C23_ReleasedBeforeNextStep ==
    \A r \in Reqs :
        /\ AttemptOrder(r)
        /\ BetweenAttempts(r) =>
              \A i \in 1..Sends(r) : log[r][i].resp => Released(log[r][i])
        /\ ReturnedError(r) =>
              \A i \in 1..Sends(r) : log[r][i].resp =>
                  \/ DrainedAndClosed(log[r][i])
                  \/ /\ i = Sends(r)
                     /\ log[r][i].copies = 1 /\ log[r][i].closes = 1
                     /\ result[r].err = DiscardError("copyErr")

\* The second send is about to start: the body was rewound for it, the
\* first response is drained and closed, and one delay wait is over.
C23_Witness ==
    /\ pc[1] = "send"
    /\ Sends(1) = 1
    /\ log[1][1].resp /\ Released(log[1][1])
    /\ Waits(1) = 1
    /\ rewinds[1].ok = 2
    /\ req[1].Body = 3

\* Every send of call r so far failed and was released without error.
AllFailedAndReleased(r) ==
    \A i \in 1..Sends(r) :
        /\ ~GoodSend(log[r][i])
        /\ log[r][i].resp \/ log[r][i].err # Nil
        /\ log[r][i].resp => Released(log[r][i])

\* C24: with a body and GetBody, GetBody is called once before every send,
\* the first included, and the send carries the body that call returned,
\* so as many rewinds succeeded as sends were made; without a body or
\* without GetBody, GetBody is never called, every send carries the
\* request as given, and failed sends are still retried up to the budget.
C24_RewindBeforeEverySend ==
    \A r \in Reqs :
        /\ NeedsRewind(GivenRequest(r)) =>
              /\ \A i \in 1..Sends(r) : log[r][i].body = i + 1
              /\ rewinds[r].ok = Sends(r) + (IF pc[r] = "send" THEN 1 ELSE 0)
              /\ rewinds[r].failed <= 1
              /\ rewinds[r].failed = 1 => Returned(r)
              /\ Returned(r) => rewinds[r].ok = Sends(r)
        /\ ~NeedsRewind(GivenRequest(r)) =>
              /\ rewinds[r] = [ok |-> 0, failed |-> 0]
              /\ \A i \in 1..Sends(r) : log[r][i].body = GivenRequest(r).Body
              /\ Returned(r) /\ rt.MaxRetries >= 0 /\ AllFailedAndReleased(r)
                    => Sends(r) = rt.MaxRetries + 1

\* A call with a replayable body that used its whole budget: one rewind
\* per send, each send with the copy of its own rewind.
C24_Witness ==
    /\ Returned(1)
    /\ req[1].GetBody
    /\ Sends(1) = MaxN + 1
    /\ rewinds[1] = [ok |-> MaxN + 1, failed |-> 0]
    /\ log[1][1].body = 2
    /\ log[1][MaxN + 1].body = MaxN + 2

\* The terminal state success: a response is returned, the one of the last
\* send, with no error.
InSuccess(r) ==
    /\ Returned(r)
    /\ result[r].resp = Sends(r) /\ result[r].resp # 0
    /\ result[r].err = NoError

\* The terminal state exhausted: no response is returned and the budget of
\* MaxRetries + 1 sends is consumed.
InExhausted(r) ==
    /\ Returned(r)
    /\ result[r].resp = 0 /\ result[r].err # NoError
    /\ Sends(r) >= rt.MaxRetries + 1

\* The call ended on a failure that is not retried: a failed rewind, drain
\* or close.
InAborted(r) ==
    /\ Returned(r)
    /\ result[r].resp = 0
    /\ result[r].err \in {GetBodyError("getBodyErr"), DiscardError("copyErr"),
                          CloseError("closeErr")}

\* The errors of the exhausted state.
IsExhaustionError(e) ==
    \/ e = ErrAllRetriesFailed
    \/ e.kind = "all retries failed; last error"
    \/ e.kind = "last attempt failed with status"

\* What a returned call leaves behind.
Outcome_Of(r) == <<pc[r], result[r], log[r], waits[r], rewinds[r], attempt[r]>>

\* C25 as stated: a call starts attempting at attempt 0, a call that has
\* returned is in the state success or in the state exhausted, and after
\* that it makes no send, drain or delay.
C25_Original ==
    [][\A r \in Reqs :
          /\ pc'[r] \in {"loop", "send"} /\ Len(log'[r]) = 0 => attempt'[r] = 0
          /\ pc'[r] = "done" =>
                \/ result'[r].resp # 0 /\ result'[r].err = NoError
                \/ result'[r].resp = 0 /\ Len(log'[r]) >= rt'.MaxRetries + 1
          /\ Returned(r) => Outcome_Of(r)' = Outcome_Of(r)]_vars

\* C25 as amended: a call that has returned is in exactly one of success,
\* exhausted with an exhaustion error, or ended by a failed rewind, drain
\* or close; after that it makes no send, drain or delay.
C25_TerminalStates ==
    [][\A r \in Reqs :
          /\ pc'[r] \in {"loop", "send"} /\ Len(log'[r]) = 0 => attempt'[r] = 0
          /\ pc'[r] = "done" =>
                \/ InSuccess(r)'
                \/ InAborted(r)'
                \/ InExhausted(r)' /\ IsExhaustionError(result'[r].err)
          /\ pc'[r] = "done" => ~(InAborted(r)' /\ IsExhaustionError(result'[r].err))
          /\ Returned(r) => Outcome_Of(r)' = Outcome_Of(r)]_vars

\* A call ended by a failed rewind after one send of a budget of MaxN + 1.
C25_Witness ==
    /\ InAborted(1)
    /\ rt.MaxRetries = MaxN
    /\ Sends(1) = 1
    /\ result[1].err = GetBodyError("getBodyErr")
    /\ expired[1]

\* One call under weak fairness on its own steps: every physical send,
\* drain and close returns and every delay wait ends (lines 98, 110, 112
\* and 125 return).  The deadline may pass or not.
SpecFair == Init /\ [][Next]_vars /\ WF_vars(Proceeds(1))

\* The call ended with a response or with an error.
Terminated(r) ==
    /\ Returned(r)
    /\ result[r].resp # 0 \/ result[r].err # NoError

\* A send of the call returned neither a response nor an error.
SentNeither(r) == \E i \in 1..Len(log[r]) : ~log[r][i].resp /\ log[r][i].err = Nil

\* C26: under weak fairness on its own steps a call with MaxRetries >= 0
\* eventually ends with a response or a terminal error, whatever the
\* wrapped transport returns.
C26_EventuallyTerminates == (rt.MaxRetries >= 0) => <>Terminated(1)

\* The same for the calls whose sends each return a response or an error.
TerminatesUnlessSentNeither == <>(Terminated(1) \/ SentNeither(1))

\* The budget of call r is used up: the exhausted branch of line 126 is
\* about to be taken.
AtExhaustedBranch(r) == pc[r] = "retry" /\ ~ShouldRetry(attempt[r], rt.MaxRetries)

\* C27: with MaxRetries >= 0 and sends that each return a response or an
\* error, an exhausted budget finds a captured transport error or a captured
\* response, the loop is never left through its condition, and the bare
\* ErrAllRetriesFailed is never returned.
C27_NeverBareError ==
    \A r \in Reqs :
        rt.MaxRetries >= 0 /\ ~SentNeither(r) =>
            /\ AtExhaustedBranch(r) => err[r] # Nil \/ resp[r] # 0
            /\ pc[r] = "loop" => LoopCondition(attempt[r], rt.MaxRetries)
            /\ Returned(r) => result[r].err # ErrAllRetriesFailed

\* A budget of MaxN + 1 sends used up on server errors: the error returned
\* is the one of the last status, wrapping ErrAllRetriesFailed.
C27_Witness ==
    /\ Returned(1)
    /\ rt.MaxRetries = MaxN
    /\ Sends(1) = MaxN + 1
    /\ \A i \in 1..Sends(1) : ServerErrorSend(log[1][i])
    /\ result[1] = [resp |-> 0, err |-> StatusError(log[1][Sends(1)].status)]

\* Call r is between the drain and the Close of its i-th response.
Closing(r, i) == pc[r] = "close" /\ resp[r] = i

\* C28: the body of a discarded response is closed once after the drain was
\* attempted, also when the drain failed; when the drain failed its error
\* is the one returned, whatever Close returned, and the error of Close is
\* returned only when the drain succeeded.
C28_CloseAfterDrainAttempt ==
    \A r \in Reqs : \A i \in 1..Len(log[r]) :
        LET e == log[r][i] IN
        /\ e.copies <= 1 /\ e.closes <= e.copies
        /\ e.copies = 1 /\ ~Closing(r, i) => e.closes = 1
        /\ Returned(r) /\ i = Len(log[r]) /\ e.copies = 1 /\ ~e.eof =>
                result[r] = [resp |-> 0, err |-> DiscardError("copyErr")]
        /\ Returned(r) /\ i = Len(log[r]) /\ result[r].err = CloseError("closeErr") =>
                e.copies = 1 /\ e.eof /\ e.closes = 1 /\ ~e.closed
        /\ Returned(r) /\ i = Len(log[r]) /\ e.copies = 1 /\ e.eof /\ ~e.closed =>
                result[r] = [resp |-> 0, err |-> CloseError("closeErr")]

\* The drain and the Close of the same response both failed: the body was
\* closed, and the drain error is the one returned.
C28_Witness ==
    /\ Returned(1)
    /\ Sends(1) >= 1
    /\ copyErr[1] = "copyErr" /\ closeErr[1] = "closeErr"
    /\ log[1][Sends(1)].copies = 1 /\ ~log[1][Sends(1)].eof
    /\ log[1][Sends(1)].closes = 1 /\ ~log[1][Sends(1)].closed
    /\ result[1].err = DiscardError("copyErr")

\* C29: on a retry transport with a negative MaxRetries a call makes no
\* physical send, no rewind and no delay wait, and returns a nil response
\* with the bare ErrAllRetriesFailed.
C29_NegativeMaxRetries ==
    \A r \in Reqs :
        rt.MaxRetries < 0 =>
            /\ Sends(r) = 0
            /\ rewinds[r] = [ok |-> 0, failed |-> 0]
            /\ waits[r] = <<>>
            /\ pc[r] \in {"idle", "start", "loop", "done"}
            /\ Returned(r) => result[r] = [resp |-> 0, err |-> ErrAllRetriesFailed]

\* A call with a replayable body on a transport NewClient built with
\* MaxRetries -1 has returned.
C29_Witness ==
    /\ rt = NewClient(0 - 1, FixedStrategy(100 * Millisecond), "base")
    /\ req[1] = [Body |-> 1, GetBody |-> TRUE]
    /\ Returned(1)
    /\ result[1].err = ErrAllRetriesFailed
    /\ Sends(1) = 0

====
